---- MODULE Spec2Model ----
(***************************************************************************)
(* meetings2obsidian: the incremental synchronisation of meeting summaries *)
(* (Zoom, Google Meet, Heypocket) into a vault, with the SQLite state of   *)
(* src/utils/state_manager.py.                                             *)
(*                                                                         *)
(* Spec       two sync processes (CLI invocations) sharing one state       *)
(*            database, interleaved at the granularity of one SQL          *)
(*            statement / one formatter call.                              *)
(* SpecSeq    the same processes one after the other, each of which may    *)
(*            be refused by main(), die mid-batch, or return.              *)
(* SpecDedupe GoogleMeetSync._deduplicate_docs on bounded inputs.          *)
(* SpecStab   ZoomSync._wait_for_summary_content, one poll per step.       *)
(* SpecClass  ZoomSync._looks_like_summary and the length tests around it, *)
(*            on bounded texts.                                            *)
(* SpecWaits  the polling loops _wait_for_summary_content and              *)
(*            _wait_for_user_login, with the fairness of a running loop.   *)
(* SpecBrowser  instances opening and closing their browser profiles.      *)
(***************************************************************************)
EXTENDS Integers, Sequences, FiniteSets, TLC

VARIABLES
    now,                  \* datetime.now(), in days
    remote,               \* what the remote services hold (the same meetings on each)
    meetings,             \* table meetings: rows in insertion order (row id = index)
    sync_state,           \* table sync_state: platform -> last_sync_timestamp
    fmt_calls,            \* calls of ObsidianFormatter.create_meeting_file per identity
    run,                  \* the sync processes: locals of sync() and their position
    docs, unique, dd_pc,  \* _deduplicate_docs: argument, result, position
    samples, last_summary, stable_count, best_summary, best_summary_length,
    elapsed, max_wait, st_pc, st_result,  \* _wait_for_summary_content
    text, cl_op, cl_result,               \* _looks_like_summary and its callers
    login,                \* _wait_for_user_login: its locals and position
    browser               \* the browser contexts of the running instances

engineVars == <<now, remote, meetings, sync_state, fmt_calls, run>>
dedupeVars == <<docs, unique, dd_pc>>
stabVars == <<samples, last_summary, stable_count, best_summary,
              best_summary_length, elapsed, max_wait, st_pc, st_result>>
classVars == <<text, cl_op, cl_result>>
vars == <<engineVars, dedupeVars, stabVars, classVars, login, browser>>

(***************************************************************************)
(* Bounds and program constants                                            *)
(***************************************************************************)
MaxItems == 2          \* longest remote listing
MaxTicks == 1          \* how often the clock advances
StartDay == 50         \* the day the model starts
TickDays == 10         \* days per clock step
ThirtyDays == 30       \* timedelta(days=30)
NoTime == -1           \* Python None where a datetime is expected
NoExit == -1           \* main() has not returned
MaxDocs == 3           \* longest argument of _deduplicate_docs
MaxLines == 3          \* most lines of a classified text
MaxWaitBound == 15     \* largest max_wait, in seconds
PollInterval == 3      \* time.sleep(3)
StableThreshold == 2   \* stable_count >= 2

Platforms == {"Zoom", "GoogleMeet", "Heypocket"}
RunIds == {1, 2}
Ids == {"m1", "m2"}
NoId == ""             \* a falsy id
ItemDates == {StartDay, StartDay + 5}   \* on the first day / five days later
SinceChoices == {NoTime, StartDay + 2}   \* no --since / --since two days in
Contents == {"good", "none", "fail"}  \* summary there / none rendered / fetch raises

Titles == {"Standup"}
NoSummary == "No summary available"

\* One entry of a remote listing, as the adapter's page or API shows it.
Items == [id : Ids, date : ItemDates, title : Titles, content : Contents]

\* The entries the remote side may hold: a meeting with its summary, a later
\* entry of the same id without a summary, and another meeting whose summary
\* cannot be fetched.
Catalogue ==
    {it \in Items :
        \/ it.id = "m1" /\ it.date = StartDay /\ it.content = "good"
        \/ it.id = "m1" /\ it.date = StartDay + 5 /\ it.content = "none"
        \/ it.id = "m2" /\ it.date = StartDay + 5 /\ it.content = "fail"}

Range(s) == {s[k] : k \in 1..Len(s)}

\* The sequences over S of length at most n.
RECURSIVE SeqsUpTo(_, _)
SeqsUpTo(S, n) ==
    IF n = 0 THEN {<<>>}
    ELSE LET shorter == SeqsUpTo(S, n - 1)
         IN  shorter \cup {Append(s, x) : s \in {t \in shorter : Len(t) = n - 1}, x \in S}

\* Those without a repeated element.
DistinctSeqsUpTo(S, n) == {s \in SeqsUpTo(S, n) : Cardinality(Range(s)) = Len(s)}

Listings == DistinctSeqsUpTo(Catalogue, MaxItems)

\* A meeting is listed once it has taken place.
Visible(listing, clock) ==
    LET Past(it) == it.date <= clock
    IN  SelectSeq(listing, Past)

(***************************************************************************)
(* StateManager (src/utils/state_manager.py)                               *)
(***************************************************************************)
\* A lookup that never finds the row.
is_meeting_downloaded_never(tbl, meeting_id, platform) == FALSE

\* A lookup by meeting_id alone.
is_meeting_downloaded_any_platform(tbl, meeting_id, platform) ==
    \E k \in 1..Len(tbl) : tbl[k].meeting_id = meeting_id

\* SELECT id FROM meetings WHERE meeting_id = ? AND platform = ?
is_meeting_downloaded(tbl, meeting_id, platform) ==
    \E k \in 1..Len(tbl) : tbl[k].meeting_id = meeting_id /\ tbl[k].platform = platform

MeetingRow(meeting_id, platform, file_path, title, date, ts) ==
    [meeting_id |-> meeting_id, platform |-> platform, meeting_title |-> title,
     meeting_date |-> date, download_timestamp |-> ts, file_path |-> file_path]

\* An INSERT that ignores UNIQUE(meeting_id, platform).
record_meeting_no_unique(tbl, meeting_id, platform, file_path, title, date, ts) ==
    Append(tbl, MeetingRow(meeting_id, platform, file_path, title, date, ts))

\* An INSERT OR REPLACE: the row of the identity is overwritten.
record_meeting_replace(tbl, meeting_id, platform, file_path, title, date, ts) ==
    IF \E k \in 1..Len(tbl) : tbl[k].meeting_id = meeting_id /\ tbl[k].platform = platform
    THEN [k \in 1..Len(tbl) |->
             IF tbl[k].meeting_id = meeting_id /\ tbl[k].platform = platform
             THEN MeetingRow(meeting_id, platform, file_path, title, date, ts)
             ELSE tbl[k]]
    ELSE Append(tbl, MeetingRow(meeting_id, platform, file_path, title, date, ts))

\* INSERT INTO meetings ...; sqlite3.IntegrityError (the UNIQUE constraint) is
\* caught and logged, and the table is left as it was.
record_meeting(tbl, meeting_id, platform, file_path, title, date, ts) ==
    IF \E k \in 1..Len(tbl) : tbl[k].meeting_id = meeting_id /\ tbl[k].platform = platform
    THEN tbl
    ELSE Append(tbl, MeetingRow(meeting_id, platform, file_path, title, date, ts))

get_last_sync_time(st, platform) == st[platform]

\* INSERT OR REPLACE INTO sync_state (platform, last_sync_timestamp)
update_sync_time(st, platform, timestamp) == [st EXCEPT ![platform] = timestamp]

(***************************************************************************)
(* ObsidianFormatter (src/utils/formatting.py)                             *)
(***************************************************************************)
generate_filename(meeting_date, platform, title) == <<meeting_date, platform, title>>

(***************************************************************************)
(* sync(): the lower bound of discovery                                    *)
(***************************************************************************)
\* The comparison of zoom_sync.py:1405 turned round: the later date wins.
zoom_fetch_since_later(since, last_sync_time, clock) ==
    IF since # NoTime
    THEN IF last_sync_time # NoTime /\ last_sync_time > since
         THEN last_sync_time ELSE since
    ELSE IF last_sync_time # NoTime THEN last_sync_time ELSE clock - ThirtyDays

zoom_fetch_since(since, last_sync_time, clock) ==
    IF since # NoTime
    THEN IF last_sync_time # NoTime /\ last_sync_time < since
         THEN last_sync_time ELSE since
    ELSE IF last_sync_time # NoTime THEN last_sync_time ELSE clock - ThirtyDays

\* The same without the 30-day default.
googlemeet_fetch_since_no_default(since, last_sync_time, clock) ==
    IF since # NoTime
    THEN IF last_sync_time # NoTime /\ last_sync_time < since
         THEN last_sync_time ELSE since
    ELSE last_sync_time

googlemeet_fetch_since(since, last_sync_time, clock) ==
    IF since # NoTime
    THEN IF last_sync_time # NoTime /\ last_sync_time < since
         THEN last_sync_time ELSE since
    ELSE IF last_sync_time # NoTime THEN last_sync_time ELSE clock - ThirtyDays

\* No default: fetch_since stays None when there is neither --since nor a
\* last sync time, and fetch_recordings then sends no start_date.
heypocket_fetch_since(since, last_sync_time, clock) ==
    IF since # NoTime
    THEN IF last_sync_time # NoTime /\ last_sync_time < since
         THEN last_sync_time ELSE since
    ELSE last_sync_time

fetch_since_of(platform, since, last_sync_time, clock) ==
    CASE platform = "Zoom" -> zoom_fetch_since(since, last_sync_time, clock)
      [] platform = "GoogleMeet" -> googlemeet_fetch_since(since, last_sync_time, clock)
      [] platform = "Heypocket" -> heypocket_fetch_since(since, last_sync_time, clock)

(***************************************************************************)
(* Discovery                                                               *)
(***************************************************************************)
\* GoogleMeetSync._deduplicate_docs: the first doc of each doc_id, in order;
\* a doc without doc_id is dropped.
RECURSIVE dedupe_from(_, _)
dedupe_from(ds, seen) ==
    IF ds = <<>> THEN <<>>
    ELSE LET doc == Head(ds)
         IN  IF doc.id # NoId /\ doc.id \notin seen
             THEN <<doc>> \o dedupe_from(Tail(ds), seen \cup {doc.id})
             ELSE dedupe_from(Tail(ds), seen)

\* The same loop keeping the last doc of each doc_id instead of the first.
RECURSIVE dedupe_keep_last(_)
dedupe_keep_last(ds) ==
    IF ds = <<>> THEN <<>>
    ELSE LET doc == Head(ds)
             later == \E k \in 2..Len(ds) : ds[k].id = doc.id
         IN  IF doc.id # NoId /\ ~later
             THEN <<doc>> \o dedupe_keep_last(Tail(ds))
             ELSE dedupe_keep_last(Tail(ds))

deduplicate_docs(ds) == dedupe_from(ds, {})

OnOrAfter(ds, since) ==
    LET Keep(d) == since = NoTime \/ d.date >= since
    IN  SelectSeq(ds, Keep)

\* ZoomSync.fetch_recordings: [] when navigation fails; else the page's rows
\* with date >= since, each with the summary _fetch_recording_summary returned
\* ("No summary available" when nothing rendered or the fetch raised).
zoom_fetch_recordings(listing, since, ok) ==
    IF ~ok THEN <<>>
    ELSE LET kept == OnOrAfter(listing, since)
         IN  [k \in 1..Len(kept) |->
                [kept[k] EXCEPT !.content =
                    IF kept[k].content = "good" THEN "good" ELSE NoSummary]]

\* GoogleMeetSync.fetch_meetings: [] when navigation fails; else the
\* deduplicated docs with date >= since whose export succeeded and gave at
\* least 50 characters of markdown.
googlemeet_fetch_meetings(listing, since, ok) ==
    IF ~ok THEN <<>>
    ELSE LET all_docs == deduplicate_docs(listing)
             Keep(d) == /\ d.id # NoId
                        /\ ~(since # NoTime /\ d.date < since)
                        /\ d.content = "good"
         IN  SelectSeq(all_docs, Keep)

\* HeypocketSync.fetch_recordings: [] when the request raises; else what the
\* API returns for start_date = since (every recording when since is None).
heypocket_fetch_recordings(listing, since, ok) ==
    IF ~ok THEN <<>> ELSE OnOrAfter(listing, since)

\* The entries whose content discovery fetches: Zoom opens the detail page of
\* every row it kept (_fetch_recording_summary), Google Meet exports every
\* deduplicated doc that passes the date filter (_extract_doc_content),
\* Heypocket fetches nothing before process_recording.
zoom_summary_fetches(listing, since, ok) ==
    IF ~ok THEN {} ELSE Range(OnOrAfter(listing, since))

googlemeet_doc_exports(listing, since, ok) ==
    IF ~ok THEN {}
    ELSE {d \in Range(deduplicate_docs(listing)) :
             d.id # NoId /\ ~(since # NoTime /\ d.date < since)}

heypocket_list_fetches(listing, since, ok) == {}

content_fetches_of(platform, listing, since, ok) ==
    CASE platform = "Zoom" -> zoom_summary_fetches(listing, since, ok)
      [] platform = "GoogleMeet" -> googlemeet_doc_exports(listing, since, ok)
      [] platform = "Heypocket" -> heypocket_list_fetches(listing, since, ok)

fetch_of(platform, listing, since, ok) ==
    CASE platform = "Zoom" -> zoom_fetch_recordings(listing, since, ok)
      [] platform = "GoogleMeet" -> googlemeet_fetch_meetings(listing, since, ok)
      [] platform = "Heypocket" -> heypocket_fetch_recordings(listing, since, ok)

(***************************************************************************)
(* The sync processes                                                      *)
(***************************************************************************)
NoPath == <<>>

\* Positions of a process that has ended: sync() returned, an exception
\* escaped it, the process was killed.
Ended == {"done", "raised", "killed"}

\* A main() that reports success whatever happened.
main_exit_code_always_zero(outcome) == 0

\* main(): `return 0` after sync() returned, `return 1` for an invalid --since
\* and in `except Exception`.
main_exit_code(outcome) == IF outcome = "completed" THEN 0 ELSE 1

IdleRun ==
    [pc |-> "idle", platform |-> "Zoom", enabled |-> TRUE, since |-> NoTime,
     dry_run |-> FALSE, last_sync_time |-> NoTime, fetch_since |-> NoTime,
     started |-> NoTime, listing |-> <<>>, discovery_ok |-> TRUE,
     recordings |-> <<>>, i |-> 1, count |-> 0, file_path |-> NoPath,
     wm_updated |-> FALSE, conflicts |-> 0, write_failed |-> FALSE,
     fetch_failed |-> FALSE,
     created |-> {}, first_row |-> 0, preceded_by |-> {}, exit_code |-> NoExit]

EngineInit ==
    /\ now = StartDay
    /\ remote \in Listings
    /\ meetings = <<>>
    /\ sync_state = [p \in Platforms |-> NoTime]
    /\ fmt_calls = [k \in Platforms \X Ids |-> 0]
    /\ run = [r \in RunIds |-> IdleRun]

\* Time passes.
Tick ==
    /\ now < StartDay + MaxTicks * TickDays
    /\ now' = now + TickDays
    /\ UNCHANGED <<remote, meetings, sync_state, fmt_calls, run>>

\* main() returns 1 before sync() is called: ConfigLoader raises (why =
\* "config") or datetime.fromisoformat rejects --since (why = "since").
MainRejects(r, p, why) ==
    /\ run[r].pc = "idle"
    /\ \A q \in RunIds : q < r => run[q].pc # "idle"
    /\ run' = [run EXCEPT ![r] = [IdleRun EXCEPT !.pc = "rejected", !.platform = p,
                  !.started = now, !.first_row = Len(meetings),
                  !.exit_code = main_exit_code(why)]]
    /\ UNCHANGED <<now, remote, meetings, sync_state, fmt_calls>>

\* sync() of a platform that the configuration disables: return 0.
SyncDisabled(r, p) ==
    /\ run[r].pc = "idle"
    /\ \A q \in RunIds : q < r => run[q].pc # "idle"
    /\ run' = [run EXCEPT ![r] = [IdleRun EXCEPT !.pc = "done", !.platform = p,
                  !.enabled = FALSE, !.started = now,
                  !.exit_code = main_exit_code("completed"),
                  !.first_row = Len(meetings),
                  !.preceded_by = {q \in RunIds : run[q].pc \in Ended}]]
    /\ UNCHANGED <<now, remote, meetings, sync_state, fmt_calls>>

\* sync() up to the loop: read the last sync time, choose the lower bound,
\* run discovery (listing: what the remote side holds; ok: whether
\* navigation / the API request succeeded).
SyncStart(r, p, since, dry, ok) ==
    /\ run[r].pc = "idle"
    /\ \A q \in RunIds : q < r => run[q].pc # "idle"
    /\ LET listing == Visible(remote, now)
           last_sync_time == get_last_sync_time(sync_state, p)
           fetch_since == fetch_since_of(p, since, last_sync_time, now)
       IN  run' = [run EXCEPT ![r] = [IdleRun EXCEPT !.pc = "loop", !.platform = p,
                      !.since = since, !.dry_run = dry,
                      !.last_sync_time = last_sync_time,
                      !.fetch_since = fetch_since, !.started = now,
                      !.listing = listing, !.discovery_ok = ok,
                      !.recordings = fetch_of(p, listing, fetch_since, ok),
                      !.first_row = Len(meetings),
                      !.preceded_by = {q \in RunIds : run[q].pc \in Ended}]]
    /\ UNCHANGED <<now, remote, meetings, sync_state, fmt_calls>>

Current(r) == run[r].recordings[run[r].i]

\* A process_recording that forgets the dry-run test.
SkipsItemIgnoringDryRun(r) ==
    LET it == Current(r)
    IN  \/ it.id = NoId
        \/ is_meeting_downloaded(meetings, it.id, run[r].platform)
        \/ run[r].platform = "Heypocket" /\ it.content = "fail"

\* process_recording / process_meeting returns None before the formatter is
\* reached: no id, already downloaded, (Heypocket) details not fetched, dry run.
SkipsItem(r) ==
    LET it == Current(r)
    IN  \/ it.id = NoId
        \/ is_meeting_downloaded(meetings, it.id, run[r].platform)
        \/ run[r].platform = "Heypocket" /\ it.content = "fail"
        \/ run[r].dry_run

\* HeypocketSync.fetch_recording_details returned None for the current item.
DetailsFail(r) ==
    LET it == Current(r)
    IN  /\ run[r].platform = "Heypocket" /\ it.content = "fail"
        /\ it.id # NoId
        /\ ~is_meeting_downloaded(meetings, it.id, run[r].platform)

ProcessSkip(r) ==
    /\ run[r].pc = "loop"
    /\ run[r].i <= Len(run[r].recordings)
    /\ SkipsItem(r)
    /\ run' = [run EXCEPT ![r].i = @ + 1,
                  ![r].fetch_failed = @ \/ DetailsFail(r)]
    /\ UNCHANGED <<now, remote, meetings, sync_state, fmt_calls>>

\* formatter.create_meeting_file(...): writes the file (written = TRUE) or
\* raises IOError, which process_recording catches and turns into None.
ProcessWrite(r, written) ==
    /\ run[r].pc = "loop"
    /\ run[r].i <= Len(run[r].recordings)
    /\ ~SkipsItem(r)
    /\ LET it == Current(r)
           key == <<run[r].platform, it.id>>
       IN  /\ fmt_calls' = [fmt_calls EXCEPT ![key] = @ + 1]
           /\ run' = IF written
                     THEN [run EXCEPT ![r].pc = "record",
                              ![r].file_path =
                                  generate_filename(it.date, run[r].platform, it.title)]
                     ELSE [run EXCEPT ![r].i = @ + 1, ![r].write_failed = TRUE]
    /\ UNCHANGED <<now, remote, meetings, sync_state>>

\* A loop that does not count what process_recording returned.
ProcessRecordUncounted(r) ==
    /\ run[r].pc = "record"
    /\ LET it == Current(r)
           p == run[r].platform
       IN  /\ meetings' = record_meeting(meetings, it.id, p, run[r].file_path,
                                         it.title, it.date, now)
           /\ run' = [run EXCEPT ![r].pc = "loop", ![r].i = @ + 1,
                         ![r].file_path = NoPath,
                         ![r].created = IF Len(meetings') > Len(meetings)
                                        THEN @ \cup {Len(meetings')} ELSE @]
    /\ UNCHANGED <<now, remote, sync_state, fmt_calls>>

\* state_manager.record_meeting(...), then `return file_path`, which the loop
\* of sync() counts.
ProcessRecord(r) ==
    /\ run[r].pc = "record"
    /\ LET it == Current(r)
           p == run[r].platform
       IN  /\ meetings' = record_meeting(meetings, it.id, p, run[r].file_path,
                                         it.title, it.date, now)
           /\ run' = [run EXCEPT ![r].pc = "loop", ![r].i = @ + 1,
                         ![r].count = @ + 1, ![r].file_path = NoPath,
                         ![r].conflicts = IF Len(meetings') > Len(meetings)
                                          THEN @ ELSE @ + 1,
                         ![r].created = IF Len(meetings') > Len(meetings)
                                        THEN @ \cup {Len(meetings')} ELSE @]
    /\ UNCHANGED <<now, remote, sync_state, fmt_calls>>

\* The test that guards update_sync_time at the end of sync().
zoom_updates_sync_time(dry_run, recordings) == ~dry_run /\ recordings # <<>>
googlemeet_updates_sync_time(dry_run, recordings) == ~dry_run /\ recordings # <<>>
heypocket_updates_sync_time(dry_run, recordings) == ~dry_run

updates_sync_time(platform, dry_run, recordings) ==
    CASE platform = "Zoom" -> zoom_updates_sync_time(dry_run, recordings)
      [] platform = "GoogleMeet" -> googlemeet_updates_sync_time(dry_run, recordings)
      [] platform = "Heypocket" -> heypocket_updates_sync_time(dry_run, recordings)

\* A sync() that stores the lower bound it fetched from as the sync time.
sync_timestamp_lower_bound(r) ==
    IF run[r].fetch_since # NoTime THEN run[r].fetch_since ELSE now

\* update_sync_time(platform): timestamp defaults to datetime.now().
sync_timestamp(r) == now

\* A sync() that writes the last sync time while items are still to come.
SyncFinishEarly(r) ==
    /\ run[r].pc = "loop"
    /\ LET upd == updates_sync_time(run[r].platform, run[r].dry_run, run[r].recordings)
       IN  /\ sync_state' = IF upd
                            THEN update_sync_time(sync_state, run[r].platform,
                                                  sync_timestamp(r))
                            ELSE sync_state
           /\ run' = [run EXCEPT ![r].pc = "done", ![r].wm_updated = upd,
                         ![r].exit_code = main_exit_code("completed")]
    /\ UNCHANGED <<now, remote, meetings, fmt_calls>>

\* The end of sync(): the loop is over, the watermark is written, count returned.
SyncFinish(r) ==
    /\ run[r].pc = "loop"
    /\ run[r].i > Len(run[r].recordings)
    /\ LET upd == updates_sync_time(run[r].platform, run[r].dry_run, run[r].recordings)
       IN  /\ sync_state' = IF upd
                            THEN update_sync_time(sync_state, run[r].platform,
                                                  sync_timestamp(r))
                            ELSE sync_state
           /\ run' = [run EXCEPT ![r].pc = "done", ![r].wm_updated = upd,
                         ![r].exit_code = main_exit_code("completed")]
    /\ UNCHANGED <<now, remote, meetings, fmt_calls>>

\* What is left of a process that died: its locals are gone; kept are the
\* platform it ran for, what it had read and committed, and its exit code.
Dead(rec, how) ==
    [IdleRun EXCEPT !.pc = IF how = "exception" THEN "raised" ELSE "killed",
        !.platform = rec.platform,
        !.last_sync_time = rec.last_sync_time, !.created = rec.created,
        !.first_row = rec.first_row, !.preceded_by = rec.preceded_by,
        !.exit_code = IF how = "exception" THEN main_exit_code(how) ELSE NoExit]

\* A death that takes the rows of the batch with it, as if record_meeting
\* did not commit.
CrashRollsBack(r, how) ==
    /\ run[r].pc \in {"loop", "record"}
    /\ how = "exception" => run[r].pc = "loop"
    /\ run' = [run EXCEPT ![r] = Dead(run[r], how)]
    /\ meetings' = SubSeq(meetings, 1, run[r].first_row)
    /\ UNCHANGED <<now, remote, sync_state, fmt_calls>>

\* The run ends between discovery and the end of the loop: an exception
\* escapes sync() from outside process_recording's try, as from
\* is_meeting_downloaded, and main() returns 1 (how = "exception"), or the
\* process is killed (how = "killed").  What record_meeting committed stays.
Crash(r, how) ==
    /\ run[r].pc \in {"loop", "record"}
    /\ how = "exception" => run[r].pc = "loop"
    /\ run' = [run EXCEPT ![r] = Dead(run[r], how)]
    /\ UNCHANGED <<now, remote, meetings, sync_state, fmt_calls>>

EngineNext ==
    \/ Tick
    \/ \E r \in RunIds, p \in Platforms : SyncDisabled(r, p)
    \/ \E r \in RunIds, p \in Platforms, since \in SinceChoices, dry \in BOOLEAN,
          ok \in BOOLEAN : SyncStart(r, p, since, dry, ok)
    \/ \E r \in RunIds : ProcessSkip(r)
    \/ \E r \in RunIds, written \in BOOLEAN : ProcessWrite(r, written)
    \/ \E r \in RunIds : ProcessRecord(r)
    \/ \E r \in RunIds : SyncFinish(r)

EngineIdle ==
    /\ now = StartDay /\ remote = <<>> /\ meetings = <<>>
    /\ sync_state = [p \in Platforms |-> NoTime]
    /\ fmt_calls = [k \in Platforms \X Ids |-> 0]
    /\ run = [r \in RunIds |-> IdleRun]
DedupeIdle == docs = <<>> /\ unique = <<>> /\ dd_pc = "off"
StabIdle ==
    /\ samples = <<>> /\ last_summary = "" /\ stable_count = 0
    /\ best_summary = "" /\ best_summary_length = 0 /\ elapsed = 0
    /\ max_wait = 0 /\ st_pc = "off" /\ st_result = ""

ClassIdle == text = <<>> /\ cl_op = "off" /\ cl_result = FALSE

\* Nobody waits for a login.
IdleLogin ==
    [pc |-> "off", platform |-> "Zoom", timeout |-> 0, elapsed |-> 0,
     last_probe_time |-> NoTime, observed |-> FALSE, result |-> FALSE]
LoginIdle == login = IdleLogin

\* No instance has asked for a browser.
IdleBrowser == [pc |-> "idle", platform |-> "Zoom", user_data_dir |-> ""]
BrowserIdle == browser = <<>>
OthersIdle == LoginIdle /\ BrowserIdle

Init == EngineInit /\ DedupeIdle /\ StabIdle /\ ClassIdle /\ OthersIdle
Next == EngineNext /\ UNCHANGED <<dedupeVars, stabVars, classVars, login, browser>>
Spec == Init /\ [][Next]_vars

\* No sync is between discovery and its return.
Quiet == \A q \in RunIds : run[q].pc \notin {"loop", "record"}

SeqNext ==
    \/ Tick
    \/ Quiet /\ \E r \in RunIds, p \in Platforms, why \in {"config", "since"} :
                    MainRejects(r, p, why)
    \/ Quiet /\ \E r \in RunIds, p \in Platforms : SyncDisabled(r, p)
    \/ Quiet /\ \E r \in RunIds, p \in Platforms, since \in SinceChoices,
                    dry \in BOOLEAN, ok \in BOOLEAN : SyncStart(r, p, since, dry, ok)
    \/ \E r \in RunIds : ProcessSkip(r)
    \/ \E r \in RunIds, written \in BOOLEAN : ProcessWrite(r, written)
    \/ \E r \in RunIds : ProcessRecord(r)
    \/ \E r \in RunIds : SyncFinish(r)
    \/ \E r \in RunIds, how \in {"exception", "killed"} : Crash(r, how)

NextSeq == SeqNext /\ UNCHANGED <<dedupeVars, stabVars, classVars, login, browser>>
SpecSeq == Init /\ [][NextSeq]_vars

(***************************************************************************)
(* Properties of the sync processes (checked under Spec)                   *)
(***************************************************************************)
Started(r) == run[r].pc \notin {"idle", "rejected"} /\ run[r].enabled
Done(r) == run[r].pc = "done" /\ run[r].enabled

\* Run b is a repetition of run a: the same platform and --since, neither a
\* dry run, a had returned before b began, and the remote side showed both
\* the same listing.
Repeats(a, b) ==
    /\ a # b /\ Done(a) /\ Done(b)
    /\ a \in run[b].preceded_by
    /\ run[a].platform = run[b].platform
    /\ run[a].since = run[b].since
    /\ ~run[a].dry_run /\ ~run[b].dry_run
    /\ run[a].listing = run[b].listing

\* a is no later than b, None being before every date.
NoLater(a, b) == a = NoTime \/ (b # NoTime /\ a <= b)

C2_UniqueIdentity ==
    \A j \in 1..Len(meetings), k \in 1..Len(meetings) :
        (meetings[j].meeting_id = meetings[k].meeting_id
         /\ meetings[j].platform = meetings[k].platform) => j = k

\* A record_meeting met a row of the same identity and left the table alone.
C2_Witness ==
    /\ \E r \in RunIds : run[r].conflicts > 0
    /\ meetings # <<>>

\* C3: no step moves a platform's last sync time backwards, an absent one
\* counting as the earliest.
C3_WatermarkMonotone ==
    [][\A p \in Platforms : NoLater(sync_state[p], sync_state'[p])]_vars

\* A run has overwritten a last sync time that was already there.
C3_Witness ==
    \E r \in RunIds :
        /\ Done(r) /\ run[r].wm_updated
        /\ run[r].last_sync_time # NoTime
        /\ sync_state[run[r].platform] > run[r].last_sync_time

\* C4: a sync whose discovery failed returns 0 and does not write the last
\* sync time.
C4_FailedDiscoveryKeepsWatermark ==
    \A r \in RunIds :
        (Done(r) /\ ~run[r].discovery_ok) => run[r].count = 0 /\ ~run[r].wm_updated

\* C5: a sync that is not a dry run writes the last sync time exactly when
\* discovery returned at least one item.
C5_WatermarkIffDiscovered ==
    \A r \in RunIds :
        (Done(r) /\ ~run[r].dry_run) => (run[r].wm_updated <=> run[r].recordings # <<>>)

\* C6: a step of a dry run calls no formatter, records no meeting and writes no
\* last sync time.
C6_DryRunWritesNothing ==
    [][\A r \in RunIds :
          (run'[r] # run[r] /\ run'[r].dry_run)
              => UNCHANGED <<meetings, sync_state, fmt_calls>>]_vars

\* A dry run has gone through a batch holding a meeting that is not recorded.
C6_Witness ==
    \E r \in RunIds :
        /\ Done(r) /\ run[r].dry_run
        /\ \E k \in 1..Len(run[r].recordings) :
               ~is_meeting_downloaded(meetings, run[r].recordings[k].id, run[r].platform)
        /\ run[r].count = 0

\* C7: with --since and a last sync time discovery starts from the earlier of
\* the two; with only one of them, from that one.
C7_LowerBound ==
    \A r \in RunIds :
        Started(r) =>
            LET s == run[r].since
                w == run[r].last_sync_time
                f == run[r].fetch_since
            IN  /\ (s # NoTime /\ w # NoTime) => (f = IF w < s THEN w ELSE s)
                /\ (s # NoTime /\ w = NoTime) => f = s
                /\ (s = NoTime /\ w # NoTime) => f = w

\* A run given a --since later than the stored last sync time starts from the
\* last sync time.
C7_Witness ==
    \E r \in RunIds :
        /\ Started(r)
        /\ run[r].since # NoTime /\ run[r].last_sync_time # NoTime
        /\ run[r].last_sync_time < run[r].since
        /\ run[r].fetch_since = run[r].last_sync_time

\* C8 (as written): with neither --since nor a last sync time, every platform
\* starts discovery from 30 days before now.
C8_DefaultThirtyDays ==
    \A r \in RunIds :
        (Started(r) /\ run[r].since = NoTime /\ run[r].last_sync_time = NoTime)
            => run[r].fetch_since = run[r].started - ThirtyDays

\* C8 (amended): with neither --since nor a last sync time, Zoom and Google
\* Meet start discovery from 30 days before now; Heypocket gives discovery no
\* lower bound and receives every recording listed.
C8_DefaultPerPlatform ==
    \A r \in RunIds :
        (Started(r) /\ run[r].since = NoTime /\ run[r].last_sync_time = NoTime)
            => IF run[r].platform = "Heypocket"
               THEN /\ run[r].fetch_since = NoTime
                    /\ run[r].discovery_ok => run[r].recordings = run[r].listing
               ELSE run[r].fetch_since = run[r].started - ThirtyDays

\* A Google Meet run and a Heypocket run, both without --since and without a
\* last sync time.
C8_Witness ==
    \E a \in RunIds, b \in RunIds :
        /\ Started(a) /\ run[a].platform = "GoogleMeet"
        /\ run[a].since = NoTime /\ run[a].last_sync_time = NoTime
        /\ Started(b) /\ run[b].platform = "Heypocket"
        /\ run[b].since = NoTime /\ run[b].last_sync_time = NoTime
        /\ run[b].listing # <<>> /\ run[b].discovery_ok

(***************************************************************************)
(* GoogleMeetSync._deduplicate_docs on its own                             *)
(***************************************************************************)
DocIds == {"d1", "d2"}
Origins == {"owned", "shared"}   \* "Owned by me" / "Shared with me"
Docs == [id : DocIds \cup {NoId}, origin : Origins]

DedupeInit ==
    /\ docs \in SeqsUpTo(Docs, MaxDocs)
    /\ unique = <<>>
    /\ dd_pc = "ready"

Dedupe ==
    /\ dd_pc = "ready"
    /\ unique' = deduplicate_docs(docs)
    /\ dd_pc' = "done"
    /\ UNCHANGED docs

InitDedupe == EngineIdle /\ DedupeInit /\ StabIdle /\ ClassIdle /\ OthersIdle
NextDedupe == Dedupe /\ UNCHANGED <<engineVars, stabVars, classVars, login, browser>>
SpecDedupe == InitDedupe /\ [][NextDedupe]_vars

\* The index in docs of the first doc carrying doc_id id.
FirstIndex(id) == CHOOSE k \in 1..Len(docs) :
                      docs[k].id = id /\ \A j \in 1..(k - 1) : docs[j].id # id

\* C9: the result of _deduplicate_docs has pairwise distinct doc_ids; it is
\* the subsequence of the argument made of the first doc of each doc_id, in
\* the order of those first occurrences, each doc as it was at its first
\* occurrence; every doc_id of the argument is in it.
C9_DedupeFirstOccurrences ==
    dd_pc = "done" =>
        /\ \A j \in 1..Len(unique), k \in 1..Len(unique) :
               unique[j].id = unique[k].id => j = k
        /\ \A k \in 1..Len(unique) :
               /\ unique[k].id # NoId
               /\ \E j \in 1..Len(docs) : docs[j].id = unique[k].id
               /\ unique[k] = docs[FirstIndex(unique[k].id)]
        /\ \A j \in 1..Len(unique), k \in 1..Len(unique) :
               j < k => FirstIndex(unique[j].id) < FirstIndex(unique[k].id)
        /\ \A j \in 1..Len(docs) :
               docs[j].id # NoId => \E k \in 1..Len(unique) : unique[k].id = docs[j].id

\* A doc found under both origins has been reduced to its first occurrence,
\* with another doc after it.
C9_Witness ==
    /\ dd_pc = "done"
    /\ \E j \in 1..Len(docs), k \in 1..Len(docs) :
           /\ j < k /\ docs[j].id = docs[k].id /\ docs[j].id # NoId
           /\ docs[j].origin # docs[k].origin
    /\ Len(unique) = 2

(***************************************************************************)
(* ZoomSync._wait_for_summary_content on its own                           *)
(***************************************************************************)
\* What _extract_summary_from_detail_page may return at one poll.
SampleTexts == {"", NoSummary, "A", "AB", "ABC"}
MaxWaits == {0, 2 * PollInterval, MaxWaitBound}

\* `if summary and summary != "No summary available"`
IsSummary(t) == t # "" /\ t # NoSummary

StabInit ==
    /\ samples = <<>>
    /\ last_summary = "" /\ stable_count = 0
    /\ best_summary = "" /\ best_summary_length = 0
    /\ elapsed = 0
    /\ max_wait \in MaxWaits
    /\ st_pc = "poll" /\ st_result = ""

\* A loop that keeps stable_count when the sample differs from the last one.
PollNoReset(summary) ==
    /\ st_pc = "poll"
    /\ elapsed < max_wait
    /\ samples' = Append(samples, summary)
    /\ IF IsSummary(summary)
       THEN /\ IF Len(summary) > best_summary_length
               THEN best_summary' = summary /\ best_summary_length' = Len(summary)
               ELSE UNCHANGED <<best_summary, best_summary_length>>
            /\ IF summary = last_summary
               THEN /\ stable_count' = stable_count + 1
                    /\ UNCHANGED last_summary
                    /\ IF stable_count' >= StableThreshold
                       THEN st_pc' = "done" /\ st_result' = summary /\ UNCHANGED elapsed
                       ELSE elapsed' = elapsed + PollInterval /\ UNCHANGED <<st_pc, st_result>>
               ELSE /\ UNCHANGED stable_count
                    /\ last_summary' = summary
                    /\ elapsed' = elapsed + PollInterval
                    /\ UNCHANGED <<st_pc, st_result>>
       ELSE /\ stable_count' = 0
            /\ last_summary' = ""
            /\ elapsed' = elapsed + PollInterval
            /\ UNCHANGED <<best_summary, best_summary_length, st_pc, st_result>>
    /\ UNCHANGED max_wait

\* One turn of the while loop: take a sample, return it if it has been stable,
\* else sleep.
Poll(summary) ==
    /\ st_pc = "poll"
    /\ elapsed < max_wait
    /\ samples' = Append(samples, summary)
    /\ IF IsSummary(summary)
       THEN /\ IF Len(summary) > best_summary_length
               THEN best_summary' = summary /\ best_summary_length' = Len(summary)
               ELSE UNCHANGED <<best_summary, best_summary_length>>
            /\ IF summary = last_summary
               THEN /\ stable_count' = stable_count + 1
                    /\ UNCHANGED last_summary
                    /\ IF stable_count' >= StableThreshold
                       THEN st_pc' = "done" /\ st_result' = summary /\ UNCHANGED elapsed
                       ELSE elapsed' = elapsed + PollInterval /\ UNCHANGED <<st_pc, st_result>>
               ELSE /\ stable_count' = 0
                    /\ last_summary' = summary
                    /\ elapsed' = elapsed + PollInterval
                    /\ UNCHANGED <<st_pc, st_result>>
       ELSE /\ stable_count' = 0
            /\ last_summary' = ""
            /\ elapsed' = elapsed + PollInterval
            /\ UNCHANGED <<best_summary, best_summary_length, st_pc, st_result>>
    /\ UNCHANGED max_wait

\* A fallback that returns the sample seen last instead of the longest.
TimeoutReturnsLast ==
    /\ st_pc = "poll"
    /\ ~(elapsed < max_wait)
    /\ st_pc' = "done"
    /\ st_result' = IF last_summary # "" THEN last_summary ELSE NoSummary
    /\ UNCHANGED <<samples, last_summary, stable_count, best_summary,
                   best_summary_length, elapsed, max_wait>>

\* The loop condition fails: return the best content seen, if any.
Timeout ==
    /\ st_pc = "poll"
    /\ ~(elapsed < max_wait)
    /\ st_pc' = "done"
    /\ st_result' = IF best_summary # "" THEN best_summary ELSE NoSummary
    /\ UNCHANGED <<samples, last_summary, stable_count, best_summary,
                   best_summary_length, elapsed, max_wait>>

InitStab == EngineIdle /\ DedupeIdle /\ StabInit /\ ClassIdle /\ OthersIdle
NextStab ==
    \/ (\E summary \in SampleTexts : Poll(summary))
           /\ UNCHANGED <<engineVars, dedupeVars, classVars, login, browser>>
    \/ Timeout /\ UNCHANGED <<engineVars, dedupeVars, classVars, login, browser>>
SpecStab == InitStab /\ [][NextStab]_vars

\* C10: the wait returns a sample as soon as it equals the sample before it,
\* both being summaries; for the samples "", "A", "AB", "AB" it has returned
\* "AB" at the fourth.
C10_ReturnsAtSecondIdenticalSample ==
    LET n == Len(samples)
    IN  (n >= 2 /\ IsSummary(samples[n]) /\ samples[n] = samples[n - 1])
            => st_pc = "done" /\ st_result = samples[n]

\* The call has returned from the code after the loop (max_wait elapsed); a
\* return from inside the loop leaves elapsed below max_wait.
TimedOut == st_pc = "done" /\ ~(elapsed < max_wait)

\* C11: when max_wait elapses without stabilization the wait returns a summary
\* it sampled that is at least as long as every summary it sampled, and returns
\* "No summary available" exactly when no sample was a summary.
C11_TimeoutReturnsLongest ==
    TimedOut =>
        LET valid == {k \in 1..Len(samples) : IsSummary(samples[k])}
        IN  /\ (valid = {}) <=> (st_result = NoSummary)
            /\ valid # {} =>
                   /\ \E k \in valid : st_result = samples[k]
                   /\ \A k \in valid : Len(samples[k]) <= Len(st_result)

\* The samples grew "A", "AB", "ABC", shrank again, none repeating, and the
\* wait timed out with "ABC".
C11_Witness ==
    /\ TimedOut
    /\ Len(samples) >= 4
    /\ samples[1] = "A" /\ samples[2] = "AB" /\ samples[3] = "ABC"
    /\ samples[Len(samples)] = "A"
    /\ st_result = "ABC"

(***************************************************************************)
(* ZoomSync._looks_like_summary, _clean_summary_text and the length tests  *)
(* of their callers                                                        *)
(***************************************************************************)
PlaceholderMaxLen == 200   \* len(text) < 200
ShortLineLen == 20         \* len(line) < 20
SentenceLineLen == 50      \* len(line) > 50
ZoomMinLen == 100          \* len(cleaned) > 100
GoogleMeetMinLen == 50     \* len(content) < 50
CleanKeepLen == 50         \* len(result) < 50: return the original text
CleanTinyLen == 10         \* len(line) < 10
CleanLongLen == 20         \* len(line) > 20
CleanInSummaryLen == 5     \* in_summary and len(line) > 5

\* A line of text, by what the code looks at: the anchored pattern it matches
\* ("id": ID: 123 456; "date"; "time"; "label": Topic:/Host:/Duration:/Meeting
\* ID:; "nav": a navigation word such as Share; "header": Meeting Summary for
\* ...), its stripped length, its sentence punctuation, and whether it holds a
\* keyword or a placeholder phrase, in lower or in mixed case.
Patterns == {"none", "id", "date", "time", "label", "nav", "header"}
Cases == {"none", "lower", "mixed"}
Line(pattern, len, punct, keyword, phrase) ==
    [pattern |-> pattern, len |-> len, punct |-> punct, keyword |-> keyword,
     phrase |-> phrase]

LineCatalogue ==
    { Line("id", 11, "none", "none", "none"),       \* ID: 123 456
      Line("date", 10, "none", "none", "none"),     \* 01/02/2025
      Line("time", 8, "none", "none", "none"),      \* 10:30 AM
      Line("label", 13, "none", "none", "none"),    \* Topic: weekly
      Line("nav", 5, "none", "none", "none"),       \* Share
      Line("header", 25, "none", "mixed", "none"),  \* Meeting Summary for Sync
      Line("none", 0, "none", "none", "none"),      \* a blank line
      Line("none", 12, "none", "none", "none"),     \* Weekly notes
      Line("none", 12, "quest", "none", "none"),    \* Any blocker?
      Line("none", 30, "none", "mixed", "none"),    \* We Discussed the roadmap ..
      Line("none", 30, "dot", "none", "none"),      \* a short sentence
      Line("none", 60, "dot", "none", "none"),      \* a sentence
      Line("none", 120, "dot", "lower", "none"),    \* a long sentence
      Line("none", 26, "none", "mixed", "mixed"),   \* Summary is being generated
      Line("none", 23, "none", "none", "lower"),    \* insufficient transcript
      Line("none", 300, "dot", "lower", "mixed") }  \* a paragraph quoting a phrase

Texts == SeqsUpTo(LineCatalogue, MaxLines)

\* str.lower() on the case of an occurrence.
lower(c) == IF c = "mixed" THEN "lower" ELSE c

\* len(text): the lines and the newlines between them.
RECURSIVE sum_len(_)
sum_len(ls) == IF ls = <<>> THEN 0 ELSE Head(ls).len + sum_len(Tail(ls))
text_len(ls) == IF ls = <<>> THEN 0 ELSE sum_len(ls) + Len(ls) - 1

\* A test for the phrases that does not lower the text first.
contains_placeholder_case_sensitive(ls) ==
    \E k \in 1..Len(ls) : ls[k].phrase = "lower"

\* text_lower = text.lower(); `phrase in text_lower` for one of the phrases.
contains_placeholder(ls) ==
    \E k \in 1..Len(ls) : lower(ls[k].phrase) = "lower"

\* The elif chain of the loop over non_empty_lines: the branch a line takes.
line_branch(l) ==
    IF l.pattern = "id" THEN "id"
    ELSE IF l.pattern = "date" THEN "date"
    ELSE IF l.pattern = "time" THEN "time"
    ELSE IF l.pattern = "label" THEN "label"
    ELSE IF l.len < ShortLineLen /\ l.punct = "none" THEN "short"
    ELSE IF l.punct = "dot" /\ l.len > SentenceLineLen THEN "sentence"
    ELSE IF lower(l.keyword) = "lower" THEN "keyword"
    ELSE "neither"

\* metadata_indicators and summary_indicators, in half points.
RECURSIVE metadata_indicators(_)
metadata_indicators(ls) ==
    IF ls = <<>> THEN 0
    ELSE LET b == line_branch(Head(ls))
         IN  (IF b = "id" THEN 4
              ELSE IF b \in {"date", "time", "label"} THEN 2
              ELSE IF b = "short" THEN 1 ELSE 0) + metadata_indicators(Tail(ls))

RECURSIVE summary_indicators(_)
summary_indicators(ls) ==
    IF ls = <<>> THEN 0
    ELSE (IF line_branch(Head(ls)) \in {"sentence", "keyword"} THEN 2 ELSE 0)
             + summary_indicators(Tail(ls))

NonEmptyLines(ls) == LET Filled(l) == l.len > 0 IN SelectSeq(ls, Filled)

\* The first return False of _looks_like_summary.
placeholder_rejected(ls) ==
    contains_placeholder(ls) /\ text_len(ls) < PlaceholderMaxLen

\* A classifier that also rejects equal scores.
looks_like_summary_strict(ls) ==
    IF placeholder_rejected(ls) THEN FALSE
    ELSE LET non_empty_lines == NonEmptyLines(ls)
         IN  IF non_empty_lines = <<>> THEN FALSE
             ELSE ~(metadata_indicators(non_empty_lines)
                        >= summary_indicators(non_empty_lines))

looks_like_summary(ls) ==
    IF placeholder_rejected(ls) THEN FALSE
    ELSE LET non_empty_lines == NonEmptyLines(ls)
         IN  IF non_empty_lines = <<>> THEN FALSE
             ELSE ~(metadata_indicators(non_empty_lines)
                        > summary_indicators(non_empty_lines))

\* The loop of _clean_summary_text: blank lines, navigation words and metadata
\* lines are dropped, the header only sets in_summary, tiny unpunctuated
\* lines are dropped, and a line is kept when long or when in_summary.
RECURSIVE clean_lines(_, _)
clean_lines(ls, in_summary) ==
    IF ls = <<>> THEN <<>>
    ELSE LET l == Head(ls)
         IN  IF l.len = 0 THEN clean_lines(Tail(ls), in_summary)
             ELSE IF l.pattern \in {"nav", "id", "date", "time", "label"}
             THEN clean_lines(Tail(ls), in_summary)
             ELSE IF l.pattern = "header" THEN clean_lines(Tail(ls), TRUE)
             ELSE IF l.len < CleanTinyLen /\ l.punct = "none"
             THEN clean_lines(Tail(ls), in_summary)
             ELSE IF l.len > CleanLongLen \/ (in_summary /\ l.len > CleanInSummaryLen)
             THEN <<l>> \o clean_lines(Tail(ls), TRUE)
             ELSE clean_lines(Tail(ls), in_summary)

\* _clean_summary_text: the original text when cleaning left under 50 characters.
clean_summary_text(ls) ==
    LET result == clean_lines(ls, FALSE)
    IN  IF text_len(result) = 0 \/ text_len(result) < CleanKeepLen THEN ls ELSE result

\* str.strip(): the blank lines at both ends go.
RECURSIVE strip_front(_)
strip_front(ls) ==
    IF ls = <<>> THEN <<>>
    ELSE IF Head(ls).len = 0 THEN strip_front(Tail(ls)) ELSE ls

RECURSIVE strip_back(_)
strip_back(ls) ==
    IF ls = <<>> THEN <<>>
    ELSE IF ls[Len(ls)].len = 0 THEN strip_back(SubSeq(ls, 1, Len(ls) - 1)) ELSE ls

strip(ls) == strip_back(strip_front(ls))

\* _extract_summary_from_detail_page, parent page selectors:
\* `cleaned and len(cleaned) > 100 and self._looks_like_summary(cleaned)`.
zoom_page_summary_accepted(ls) ==
    LET cleaned == clean_summary_text(strip(ls))
    IN  text_len(cleaned) > 0 /\ text_len(cleaned) > ZoomMinLen
            /\ looks_like_summary(cleaned)

\* fetch_meetings: `if not content or len(content) < 50: continue`.
googlemeet_content_kept(ls) ==
    ~(text_len(ls) = 0 \/ text_len(ls) < GoogleMeetMinLen)

ClassInit ==
    /\ text \in Texts
    /\ cl_op = "ready"
    /\ cl_result = FALSE

LooksLikeSummary ==
    /\ cl_op = "ready"
    /\ cl_op' = "looks_like_summary"
    /\ cl_result' = looks_like_summary(text)
    /\ UNCHANGED text

ZoomPageSummary ==
    /\ cl_op = "ready"
    /\ cl_op' = "zoom_page"
    /\ cl_result' = zoom_page_summary_accepted(text)
    /\ UNCHANGED text

GoogleMeetContent ==
    /\ cl_op = "ready"
    /\ cl_op' = "googlemeet_content"
    /\ cl_result' = googlemeet_content_kept(text)
    /\ UNCHANGED text

InitClass == EngineIdle /\ DedupeIdle /\ StabIdle /\ ClassInit /\ OthersIdle
NextClass ==
    \/ LooksLikeSummary /\ UNCHANGED <<engineVars, dedupeVars, stabVars, login, browser>>
    \/ ZoomPageSummary /\ UNCHANGED <<engineVars, dedupeVars, stabVars, login, browser>>
    \/ GoogleMeetContent /\ UNCHANGED <<engineVars, dedupeVars, stabVars, login, browser>>
SpecClass == InitClass /\ [][NextClass]_vars

\* The text holds one of the placeholder phrases, in whatever case.
HasPhrase(ls) == \E k \in 1..Len(ls) : ls[k].phrase # "none"

\* Every line is a sentence of prose.
RealSentences(ls) ==
    /\ ls # <<>>
    /\ \A k \in 1..Len(ls) :
           ls[k].pattern = "none" /\ ls[k].punct = "dot" /\ ls[k].len > SentenceLineLen

\* The scores alone reject the text.
ScoresReject(ls) ==
    metadata_indicators(NonEmptyLines(ls)) > summary_indicators(NonEmptyLines(ls))

\* C12: _looks_like_summary rejects a text that holds a placeholder phrase, in
\* any case, and is under 200 characters, whatever its lines score; a text with
\* such a phrase and at least 200 characters is judged by its lines alone, and
\* accepted when it is made of real sentences.
C12_PlaceholderRejection ==
    (cl_op = "looks_like_summary" /\ HasPhrase(text)) =>
        IF text_len(text) < PlaceholderMaxLen
        THEN ~cl_result
        ELSE /\ cl_result <=> ~ScoresReject(text)
             /\ RealSentences(text) => cl_result

\* A short text with a phrase in mixed case whose lines score as content has
\* been rejected.
C12_Witness ==
    /\ cl_op = "looks_like_summary"
    /\ \E k \in 1..Len(text) : text[k].phrase = "mixed"
    /\ text_len(text) < PlaceholderMaxLen
    /\ summary_indicators(NonEmptyLines(text)) > metadata_indicators(NonEmptyLines(text))
    /\ ~cl_result

\* What the page extraction hands to _looks_like_summary.
Cleaned == clean_summary_text(strip(text))

\* C13 (as written): past the placeholder stage a text is rejected exactly
\* when its metadata score exceeds its content score or its cleaned text has
\* fewer than 50 characters.
C13_RejectsIffScoresOrUnder50 ==
    (cl_op = "zoom_page" /\ ~placeholder_rejected(Cleaned)) =>
        (~cl_result <=> (ScoresReject(Cleaned) \/ text_len(Cleaned) < GoogleMeetMinLen))

\* C13 (amended): past the placeholder stage _looks_like_summary rejects a
\* text exactly when it has no non-empty line or its metadata score exceeds
\* its content score, with no minimum length; Zoom's page extraction rejects
\* exactly when the scores reject or the cleaned text has 100 characters or
\* fewer; Google Meet keeps exactly the content of 50 characters or more.
C13_RejectsIffScoresOrGate ==
    /\ (cl_op = "looks_like_summary" /\ ~placeholder_rejected(text)) =>
           (~cl_result <=> (NonEmptyLines(text) = <<>> \/ ScoresReject(text)))
    /\ (cl_op = "zoom_page" /\ ~placeholder_rejected(Cleaned)) =>
           (~cl_result <=> (ScoresReject(Cleaned) \/ text_len(Cleaned) <= ZoomMinLen))
    /\ cl_op = "googlemeet_content" =>
           (cl_result <=> text_len(text) >= GoogleMeetMinLen)

\* The page extraction accepted a cleaned text whose two scores are equal and
\* not zero.
C13_Witness ==
    /\ cl_op = "zoom_page"
    /\ ~placeholder_rejected(Cleaned)
    /\ metadata_indicators(NonEmptyLines(Cleaned)) = summary_indicators(NonEmptyLines(Cleaned))
    /\ metadata_indicators(NonEmptyLines(Cleaned)) > 0
    /\ cl_result

(***************************************************************************)
(* Further properties of the sync processes                                *)
(***************************************************************************)
\* C14: the formatter is called, and a record written, only for an item
\* whose content is there: never for one without a summary.
C14_AbsentContentSkipped ==
    \A r \in RunIds : run[r].pc = "record" => Current(r).content = "good"

\* Run b began, without --since, after run a had returned, for the same
\* platform; a was no dry run and discovery worked in both.
Follows(a, b) ==
    /\ a # b /\ Done(a) /\ Started(b)
    /\ run[b].since = NoTime
    /\ a \in run[b].preceded_by
    /\ run[a].platform = run[b].platform
    /\ ~run[a].dry_run
    /\ run[a].discovery_ok /\ run[b].discovery_ok

\* C15: an item that a run discovered and left unrecorded, and that the remote
\* side still lists, is discovered again by the next run of the platform.
C15_SkippedItemRetried ==
    \A a \in RunIds, b \in RunIds :
        Follows(a, b) =>
            \A it \in Range(run[a].listing) \cap Range(run[b].listing) :
                (/\ NoLater(run[a].fetch_since, it.date)
                 /\ ~is_meeting_downloaded(meetings, it.id, run[a].platform))
                    => NoLater(run[b].fetch_since, it.date)

Crashed(r) == run[r].pc \in {"raised", "killed"}

C17_FormatterAtMostOnce ==
    \A key \in Platforms \X Ids : fmt_calls[key] <= 1

\* C18: a run whose record_meeting met an existing row does not count that
\* item: its count is at most the number of rows it created.
C18_ConflictNotCounted ==
    \A r \in RunIds :
        run[r].conflicts > 0 => run[r].count <= Cardinality(run[r].created)

\* Some run of platform p has had the item in its discovery window.
Discovered(p, it) ==
    \E r \in RunIds :
        /\ Started(r) /\ run[r].platform = p /\ run[r].discovery_ok
        /\ \E k \in 1..Len(run[r].listing) : run[r].listing[k] = it
        /\ NoLater(run[r].fetch_since, it.date)

\* C19: every listed item dated before a platform's last sync time has been
\* discovered by some run of that platform.
C19_NothingUndiscoveredBelowWatermark ==
    \A p \in Platforms :
        \A it \in Range(Visible(remote, now)) :
            (sync_state[p] # NoTime /\ it.date < sync_state[p]) => Discovered(p, it)

\* C20: main() returns 0 exactly when sync() returned, whatever the count, and
\* 1 when an exception escaped; refused at startup it returns 1 having
\* discovered nothing and written nothing.
C20_ExitCodes ==
    \A r \in RunIds :
        /\ run[r].exit_code = 0 <=> run[r].pc = "done"
        /\ run[r].pc = "raised" => run[r].exit_code = 1
        /\ run[r].pc = "rejected" =>
               /\ run[r].exit_code = 1
               /\ run[r].listing = <<>> /\ run[r].recordings = <<>>
               /\ run[r].created = {} /\ ~run[r].wm_updated

\* One run was refused at startup; another returned without recording
\* anything from a batch it had discovered.
C20_Witness ==
    \E a \in RunIds, b \in RunIds :
        /\ run[a].pc = "rejected" /\ run[a].exit_code = 1
        /\ Done(b) /\ run[b].recordings # <<>> /\ run[b].count = 0
        /\ run[b].exit_code = 0

(***************************************************************************)
(* Order, isolation and counts of the sync processes                       *)
(***************************************************************************)
\* The entries of sub are entries of seq in the order they have there, the
\* content aside.
InOrderOf(sub, seq) ==
    \E f \in [1..Len(sub) -> 1..Len(seq)] :
        /\ \A j \in 1..Len(sub), k \in 1..Len(sub) : j < k => f[j] < f[k]
        /\ \A k \in 1..Len(sub) :
               sub[k].id = seq[f[k]].id /\ sub[k].date = seq[f[k]].date

\* C21: a run goes through its batch in the order of discovery, one item at a
\* time, and writes the last sync time only when every item of the batch has
\* been attempted.
C21_InOrderThenWatermark ==
    [][\A r \in RunIds :
          (run'[r] # run[r] /\ run[r].pc # "idle") =>
              /\ InOrderOf(run[r].recordings, run[r].listing)
              /\ run'[r].recordings = run[r].recordings
              /\ run'[r].i \in {run[r].i, run[r].i + 1}
              /\ run'[r].i = run[r].i + 1 => run[r].i <= Len(run[r].recordings)
              /\ (sync_state' # sync_state \/ run'[r].wm_updated # run[r].wm_updated)
                     => /\ run[r].i = Len(run[r].recordings) + 1
                        /\ run'[r].pc = "done"]_vars

\* A run went through a batch of two, recorded from it, and then wrote the
\* last sync time.
C21_Witness ==
    \E r \in RunIds :
        /\ Done(r) /\ run[r].wm_updated
        /\ Len(run[r].recordings) = 2 /\ run[r].i = 3
        /\ run[r].created # {}
        /\ sync_state[run[r].platform] = now

\* C22: discovery fetches the content of no item that had a row in meetings
\* when the run began.
C22_NoFetchForCompleted ==
    \A r \in RunIds :
        Started(r) =>
            \A it \in content_fetches_of(run[r].platform, run[r].listing,
                                         run[r].fetch_since, run[r].discovery_ok) :
                ~\E j \in 1..run[r].first_row :
                    /\ meetings[j].meeting_id = it.id
                    /\ meetings[j].platform = run[r].platform

\* C23: a run that returned has attempted every item of its batch, and has
\* created no row for an item whose content could not be fetched.
C23_ItemFailureIsolated ==
    \A r \in RunIds :
        Started(r) =>
            /\ run[r].pc = "done" => run[r].i = Len(run[r].recordings) + 1
            /\ \A j \in run[r].created :
                   ~\E k \in 1..Len(run[r].listing) :
                       /\ run[r].listing[k].content = "fail"
                       /\ run[r].listing[k].id = meetings[j].meeting_id
                       /\ run[r].listing[k].date = meetings[j].meeting_date

\* C24: no step changes or removes a row of meetings: the table only grows at
\* its end, also when record_meeting is called for an identity that has a row.
C24_RecordsImmutable ==
    [][/\ Len(meetings') >= Len(meetings)
       /\ \A j \in 1..Len(meetings) : meetings'[j] = meetings[j]]_vars

\* A record_meeting for an identity met the row another run had written on an
\* earlier day, and the row still carries that day.
C24_Witness ==
    \E r \in RunIds, j \in 1..Len(meetings) :
        /\ run[r].conflicts > 0
        /\ j \notin run[r].created
        /\ meetings[j].platform = run[r].platform
        /\ \E k \in 1..Len(run[r].recordings) :
               k < run[r].i /\ run[r].recordings[k].id = meetings[j].meeting_id
        /\ meetings[j].download_timestamp < now

\* C29: a step of a run for one platform appends rows of that platform only,
\* leaves every other platform's last sync time alone, and skips an item as
\* downloaded only when meetings holds a row of the item's id and of the run's
\* own platform.
C29_PlatformsIsolated ==
    [][\A r \in RunIds :
          run'[r] # run[r] =>
              /\ \A q \in Platforms \ {run'[r].platform} : sync_state'[q] = sync_state[q]
              /\ \A j \in 1..Len(meetings) : meetings'[j] = meetings[j]
              /\ \A j \in (Len(meetings) + 1)..Len(meetings') :
                     meetings'[j].platform = run'[r].platform
              /\ (/\ run[r].pc = "loop" /\ run'[r].pc = "loop"
                  /\ run'[r].i = run[r].i + 1
                  /\ fmt_calls' = fmt_calls
                  /\ ~run[r].dry_run
                  /\ Current(r).id # NoId
                  /\ ~(run[r].platform = "Heypocket" /\ Current(r).content = "fail"))
                     => \E j \in 1..Len(meetings) :
                            /\ meetings[j].meeting_id = Current(r).id
                            /\ meetings[j].platform = run[r].platform]_vars

\* Two platforms have each recorded the meeting of one and the same id, and
\* one of them has a last sync time while a third platform has none.
C29_Witness ==
    \E j \in 1..Len(meetings), k \in 1..Len(meetings) :
        /\ meetings[j].meeting_id = meetings[k].meeting_id
        /\ meetings[j].platform # meetings[k].platform
        /\ j < k
        /\ sync_state[meetings[j].platform] # NoTime
        /\ \E q \in Platforms : sync_state[q] = NoTime

\* C30: sync() returns the number of rows the run created; 0 for a dry run, a
\* disabled platform and a failed discovery; never more than discovery returned.
C30_CountIsRowsCreated ==
    \A r \in RunIds :
        run[r].pc = "done" =>
            /\ run[r].count = Cardinality(run[r].created)
            /\ (run[r].dry_run \/ ~run[r].enabled \/ ~run[r].discovery_ok)
                   => run[r].count = 0
            /\ run[r].count <= Len(run[r].recordings)

\* One run returned 1 from a batch of two; a dry run over a batch returned 0.
C30_Witness ==
    \E a \in RunIds, b \in RunIds :
        /\ run[a].pc = "done" /\ Len(run[a].recordings) = 2
        /\ run[a].count = 1 /\ Cardinality(run[a].created) = 1
        /\ run[b].pc = "done" /\ run[b].dry_run
        /\ run[b].recordings # <<>> /\ run[b].count = 0

(***************************************************************************)
(* Further properties of _wait_for_summary_content (checked under SpecStab)*)
(***************************************************************************)
\* C25: a poll whose sample is a summary equal to the sample before it adds
\* one to stable_count, any other poll sets it to zero, and the call returns
\* from the loop exactly at the poll that brings stable_count to 2, with that
\* poll's sample.
C25_StableCountRule ==
    [][Len(samples') = Len(samples) + 1 =>
          LET n == Len(samples)
              s == samples'[n + 1]
              same == n >= 1 /\ IsSummary(s) /\ s = samples[n]
          IN  /\ stable_count' = IF same THEN stable_count + 1 ELSE 0
              /\ (st_pc' = "done") <=> (stable_count' = StableThreshold)
              /\ st_pc' = "done" => st_result' = s]_vars

\* After "A", "A" a different sample set the count back, and "AB" was
\* returned at its third consecutive sample.
C25_Witness ==
    /\ st_pc = "done" /\ elapsed < max_wait
    /\ samples = <<"A", "A", "AB", "AB", "AB">>
    /\ stable_count = StableThreshold
    /\ st_result = "AB"

\* C26: however the call ends, no summary it sampled is longer than the text
\* it returns.
C26_ReturnsBestObserved ==
    st_pc = "done" =>
        \A k \in 1..Len(samples) :
            IsSummary(samples[k]) =>
                st_result # NoSummary /\ Len(samples[k]) <= Len(st_result)

(***************************************************************************)
(* _wait_for_user_login (Zoom, Google Meet) and the polling loops together *)
(***************************************************************************)
LoginTimeoutDefault == 120   \* timeout: int = 120
ShortLoginTimeout == 7       \* a short timeout argument
MaxOpSeconds == 1            \* longest time the page operations of one turn take
ZoomLoginSleep == 2          \* time.sleep(2)
GoogleLoginSleep == 3        \* time.sleep(3)
ProbeInterval == 30          \* probe_interval = 30.0
ProbeMinElapsed == 15        \* elapsed >= 15
ProbeSleep == 2              \* time.sleep(2) after the probe's goto

LoginPlatforms == {"Zoom", "GoogleMeet"}
LoginTimeouts == {0, ShortLoginTimeout, LoginTimeoutDefault}
\* What one look at the browser shows: the page reference is stale and stays
\* so ("stale"), the user is signed in ("in"), the login page is still up
\* ("out").
LoginViews == {"stale", "in", "out"}

login_sleep(platform) == IF platform = "Zoom" THEN ZoomLoginSleep ELSE GoogleLoginSleep

\* googlemeet_sync.py:221; last_probe_time starts at 0.0, long ago.
probe_due(last_probe_time, t) ==
    /\ last_probe_time = NoTime \/ t - last_probe_time >= ProbeInterval
    /\ t >= ProbeMinElapsed

LoginInit ==
    \E p \in LoginPlatforms, t \in LoginTimeouts :
        login = [IdleLogin EXCEPT !.pc = "poll", !.platform = p, !.timeout = t]

\* One turn of the while loop: sleep, look at the browser, return True when
\* signed in; Google Meet also goes to Drive when a probe is due (probe: the
\* probe landed on Drive).
LoginPoll(view, took, probe) ==
    /\ login.pc = "poll"
    /\ login.elapsed < login.timeout
    /\ LET t == login.elapsed + login_sleep(login.platform) + took
           probes == /\ login.platform = "GoogleMeet" /\ view = "out"
                     /\ probe_due(login.last_probe_time, t)
       IN  login' =
               IF view = "in" \/ (probes /\ probe)
               THEN [login EXCEPT !.pc = "done", !.elapsed = t, !.observed = TRUE,
                        !.result = TRUE,
                        !.last_probe_time = IF probes THEN t ELSE @]
               ELSE [login EXCEPT !.elapsed = IF probes THEN t + ProbeSleep ELSE t,
                        !.last_probe_time = IF probes THEN t ELSE @]

\* A wait that has no code after its loop: past the deadline it stays where
\* it is.
LoginTimeoutBlocks(final) ==
    /\ login.pc = "poll"
    /\ ~(login.elapsed < login.timeout)
    /\ UNCHANGED login

\* The loop condition fails.  Zoom: return False.  Google Meet: one last goto
\* of Drive (final: it landed on Drive), then return True or False.
LoginTimeout(final) ==
    /\ login.pc = "poll"
    /\ ~(login.elapsed < login.timeout)
    /\ LET signed_in == login.platform = "GoogleMeet" /\ final
       IN  login' = [login EXCEPT !.pc = "done", !.result = signed_in,
                        !.observed = @ \/ signed_in]

InitWaits ==
    /\ EngineIdle /\ DedupeIdle /\ ClassIdle /\ BrowserIdle
    /\ \/ StabInit /\ LoginIdle
       \/ StabIdle /\ LoginInit

NextWaits ==
    \/ (\E summary \in SampleTexts : Poll(summary))
           /\ UNCHANGED <<engineVars, dedupeVars, classVars, login, browser>>
    \/ Timeout /\ UNCHANGED <<engineVars, dedupeVars, classVars, login, browser>>
    \/ (\E view \in LoginViews, took \in 0..MaxOpSeconds, probe \in BOOLEAN :
            LoginPoll(view, took, probe))
           /\ UNCHANGED <<engineVars, dedupeVars, stabVars, classVars, browser>>
    \/ (\E final \in BOOLEAN : LoginTimeout(final))
           /\ UNCHANGED <<engineVars, dedupeVars, stabVars, classVars, browser>>

\* A loop that is running takes its next turn: sleep returns, and every page
\* operation inside a turn carries a timeout.
SpecWaits == InitWaits /\ [][NextWaits]_vars /\ WF_vars(NextWaits)

\* The wait in progress has returned.
WaitReturned == st_pc = "done" \/ login.pc = "done"

\* C27: each polling loop returns; the summary wait that returns past max_wait
\* returns the longest summary sampled or "No summary available", and the login
\* wait that never saw the user signed in returns False, past its timeout and
\* within one turn of it.
C27_WaitsTerminate ==
    /\ <>WaitReturned
    /\ [](TimedOut => st_result = IF best_summary # "" THEN best_summary ELSE NoSummary)
    /\ []((login.pc = "done" /\ ~login.observed) =>
              /\ login.result = FALSE
              /\ ~(login.elapsed < login.timeout))
    /\ [](login.pc # "off" =>
              login.elapsed < login.timeout + GoogleLoginSleep + MaxOpSeconds
                                  + ProbeSleep + 1)

\* A Google Meet login wait probed Drive twice, never saw the user signed in,
\* and returned False after its timeout.
C27_Witness ==
    /\ login.pc = "done" /\ login.platform = "GoogleMeet"
    /\ ~login.observed /\ login.result = FALSE
    /\ login.timeout = LoginTimeoutDefault
    /\ login.last_probe_time >= ProbeMinElapsed + ProbeInterval

(***************************************************************************)
(* _init_browser: the browser profiles of instances running side by side   *)
(***************************************************************************)
NumInstances == 2      \* CLI invocations running at the same time
Instances == 1..NumInstances
BrowserPlatforms == {"Zoom", "GoogleMeet"}   \* Heypocket uses the HTTP API only
NoDir == ""            \* browser.user_data_dir is not set
DefaultProfile == "~/.meetings2obsidian/chrome_profile"
\* What platforms.<name>.browser.user_data_dir may hold.
ConfiguredDirs == {NoDir, "~/profiles/zoom", "~/profiles/google"}

\* _init_browser: the configured user_data_dir, else the default profile,
\* which is the same path in zoom_sync.py and googlemeet_sync.py.
init_browser_user_data_dir(platform, configured) ==
    IF configured = NoDir THEN DefaultProfile ELSE configured

BrowserInit == browser = [i \in Instances |-> IdleBrowser]

\* fetch_recordings / fetch_meetings: `self._init_browser(playwright)` calls
\* launch_persistent_context(user_data_dir=...).
InitBrowser(i, p, configured) ==
    /\ browser[i].pc = "idle"
    /\ browser' = [browser EXCEPT ![i] =
           [pc |-> "launching", platform |-> p,
            user_data_dir |-> init_browser_user_data_dir(p, configured)]]

\* launch_persistent_context returns the context, or raises; whether Chrome
\* starts on a profile that another Chrome has open is Chrome's decision.
Launched(i, ok) ==
    /\ browser[i].pc = "launching"
    /\ ok \/ \E j \in Instances \ {i} :
                 /\ browser[j].pc = "open"
                 /\ browser[j].user_data_dir = browser[i].user_data_dir
    /\ browser' = [browser EXCEPT ![i].pc = IF ok THEN "open" ELSE "raised"]

\* finally: self.page.close(); self.context.close()
CloseBrowser(i) ==
    /\ browser[i].pc = "open"
    /\ browser' = [browser EXCEPT ![i].pc = "closed"]

InitBrowsers ==
    /\ EngineIdle /\ DedupeIdle /\ StabIdle /\ ClassIdle /\ LoginIdle
    /\ BrowserInit

NextBrowsers ==
    \/ (\E i \in Instances, p \in BrowserPlatforms, configured \in ConfiguredDirs :
            InitBrowser(i, p, configured))
           /\ UNCHANGED <<engineVars, dedupeVars, stabVars, classVars, login>>
    \/ (\E i \in Instances, ok \in BOOLEAN : Launched(i, ok))
           /\ UNCHANGED <<engineVars, dedupeVars, stabVars, classVars, login>>
    \/ (\E i \in Instances : CloseBrowser(i))
           /\ UNCHANGED <<engineVars, dedupeVars, stabVars, classVars, login>>

SpecBrowser == InitBrowsers /\ [][NextBrowsers]_vars

\* C28: while an instance for one source has its browser profile open, no
\* instance for another source has that profile open or is starting a browser
\* on it.
C28_ExclusiveProfile ==
    \A a \in Instances, b \in Instances :
        (/\ a # b
         /\ browser[a].platform # browser[b].platform
         /\ browser[a].pc = "open"
         /\ browser[b].pc \in {"launching", "open"})
            => browser[a].user_data_dir # browser[b].user_data_dir

====
